---- MODULE Spec2Model ----
(***************************************************************************)
(* NonEmptyVec<T> (src/types/non_empty.rs) and the BPMN Process records    *)
(* (src/core/definitions.rs), with their derived Clone, PartialEq and      *)
(* Serialize / Deserialize implementations.                                *)
(*                                                                         *)
(* A value is first a free-standing NonEmptyVec<StartEvent> (phase "nev"), *)
(* may then be moved into the start_events field of a Process (phase       *)
(* "proc"), and is finally dropped (phase "none").  External               *)
(* representations are values of the serde data model as a self-describing *)
(* format (JSON) presents them: strings, null, sequences and maps.         *)
(***************************************************************************)
EXTENDS Integers, Sequences, FiniteSets, TLC

VARIABLES phase, nev, proc, hist, iters, ret

vars == <<phase, nev, proc, hist, iters, ret>>

\* Bounds of the model.
NumIds == 2        \* identifiers (and names) are drawn from 1..NumIds
MaxLen == 3        \* a NonEmptyVec grows to at most MaxLen elements

Ids == 1..NumIds

----------------------------------------------------------------------------
(* Option<String>: None or Some(s).                                        *)
None == <<>>
Some(s) == <<s>>

(* StartEvent, Task, Gateway, EndEvent: { id: String, name: Option<String> } *)
StartEvent(id, name) == [id |-> id, name |-> name]
Task(id, name) == [id |-> id, name |-> name]
Gateway(id, name) == [id |-> id, name |-> name]
EndEvent(id, name) == [id |-> id, name |-> name]

(* SequenceFlow { id, name, source_ref, target_ref }                       *)
SequenceFlow(id, name, src, tgt) ==
    [id |-> id, name |-> name, source_ref |-> src, target_ref |-> tgt]

\* The start events used as inputs: one per identifier, named when the
\* identifier is even, so that both Option variants occur.
SE(i) == StartEvent(i, IF i % 2 = 0 THEN Some(i) ELSE None)
StartEvents == {SE(i) : i \in Ids}

----------------------------------------------------------------------------
(* NonEmptyVec<T>                                                          *)

\* Mutant: the seed is also put into the tail.
NevNew_SeedTwice(h) == [head |-> h, tail |-> <<h>>]

NevNew(h) == [head |-> h, tail |-> <<>>]

\* Mutant: the most recently added element instead of the head.
NevFirst_Last(s) == IF Len(s.tail) = 0 THEN s.head ELSE s.tail[Len(s.tail)]

NevFirst(s) == s.head

\* Mutant: the value is inserted at the front of the tail.
NevPush_Front(s, v) == [s EXCEPT !.tail = <<v>> \o @]

NevPush(s, v) == [s EXCEPT !.tail = Append(@, v)]

\* Mutant: the head is not counted.
NevLen_TailOnly(s) == Len(s.tail)

NevLen(s) == 1 + Len(s.tail)

\* Mutant: the head is not yielded.
NevIter_TailOnly(s) == s.tail

\* Mutant: the tail is chained before the head.
NevIter_TailFirst(s) == s.tail \o <<s.head>>

NevIter(s) == <<s.head>> \o s.tail

NevFrom(h) == NevNew(h)

----------------------------------------------------------------------------
(* #[derive(Clone, PartialEq, Eq)]                                         *)

OptionEq(a, b) == Len(a) = Len(b) /\ \A i \in 1..Len(a) : a[i] = b[i]

\* StartEvent / Task / Gateway / EndEvent: field by field.
NodeEq(a, b) == a.id = b.id /\ OptionEq(a.name, b.name)

SequenceFlowEq(a, b) ==
    /\ a.id = b.id
    /\ OptionEq(a.name, b.name)
    /\ a.source_ref = b.source_ref
    /\ a.target_ref = b.target_ref

\* Mutant: the same elements in any order.
VecNodeEq_Unordered(x, y) ==
    /\ Len(x) = Len(y)
    /\ \A i \in 1..Len(x) : \E j \in 1..Len(y) : x[i] = y[j]
    /\ \A j \in 1..Len(y) : \E i \in 1..Len(x) : x[i] = y[j]

\* Vec<T> equality: same length and equal elements position by position.
VecNodeEq(x, y) == Len(x) = Len(y) /\ \A i \in 1..Len(x) : NodeEq(x[i], y[i])

VecFlowEq(x, y) ==
    Len(x) = Len(y) /\ \A i \in 1..Len(x) : SequenceFlowEq(x[i], y[i])

NevEq(a, b) == NodeEq(a.head, b.head) /\ VecNodeEq(a.tail, b.tail)

NevClone(s) == [head |-> s.head, tail |-> [i \in 1..Len(s.tail) |-> s.tail[i]]]

(* Process { id, name, start_events, tasks, gateways, end_events,          *)
(*           sequence_flows }: every field is supplied at construction.    *)
Process(id, name, se, tasks, gateways, ends, flows) ==
    [id |-> id, name |-> name, start_events |-> se, tasks |-> tasks,
     gateways |-> gateways, end_events |-> ends, sequence_flows |-> flows]

ProcessEq(p, q) ==
    /\ p.id = q.id
    /\ OptionEq(p.name, q.name)
    /\ NevEq(p.start_events, q.start_events)
    /\ VecNodeEq(p.tasks, q.tasks)
    /\ VecNodeEq(p.gateways, q.gateways)
    /\ VecNodeEq(p.end_events, q.end_events)
    /\ VecFlowEq(p.sequence_flows, q.sequence_flows)

ProcessClone(p) ==
    Process(p.id, p.name, NevClone(p.start_events), p.tasks, p.gateways,
            p.end_events, p.sequence_flows)

----------------------------------------------------------------------------
(* External representations: values of the serde data model, each a pair   *)
(* of its kind and its content.                                            *)
WStr(s) == <<"str", s>>
WNull == <<"null", 0>>
WSeq(items) == <<"seq", items>>
WMap(fields) == <<"map", fields>>
\* What a struct visitor sees for a key the map does not hold.
WAbsent == <<"absent", 0>>

Kind(w) == w[1]
Val(w) == w[2]

Ok(v) == [ok |-> TRUE, v |-> v]
Err(e) == [ok |-> FALSE, v |-> e]

(* #[derive(Serialize)]: a struct is written as a map of its named fields, *)
(* a Vec as a sequence, an Option as null or the value.                    *)
SerOption(o) == IF Len(o) = 0 THEN WNull ELSE WStr(o[1])

SerNode(n) == WMap([id |-> WStr(n.id), name |-> SerOption(n.name)])

SerFlow(f) ==
    WMap([id |-> WStr(f.id), name |-> SerOption(f.name),
          source_ref |-> WStr(f.source_ref), target_ref |-> WStr(f.target_ref)])

\* Mutant: the elements are written last to first.
SerVecNode_Reversed(x) == WSeq([i \in 1..Len(x) |-> SerNode(x[Len(x) + 1 - i])])

SerVecNode(x) == WSeq([i \in 1..Len(x) |-> SerNode(x[i])])

SerVecFlow(x) == WSeq([i \in 1..Len(x) |-> SerFlow(x[i])])

SerNev(s) == WMap([head |-> SerNode(s.head), tail |-> SerVecNode(s.tail)])

SerProcess(p) ==
    WMap([id |-> WStr(p.id), name |-> SerOption(p.name),
          start_events |-> SerNev(p.start_events),
          tasks |-> SerVecNode(p.tasks),
          gateways |-> SerVecNode(p.gateways),
          end_events |-> SerVecNode(p.end_events),
          sequence_flows |-> SerVecFlow(p.sequence_flows)])

(* #[derive(Deserialize)]: a struct of n fields is read from a map (by     *)
(* key; unknown keys are skipped, a missing key is an error unless the     *)
(* field is an Option) or from a sequence of exactly n elements (by        *)
(* position).                                                              *)
StructError(w, n) ==
    IF Kind(w) = "map" THEN ""
    ELSE IF Kind(w) = "seq" THEN (IF Len(Val(w)) = n THEN "" ELSE "invalid length")
    ELSE IF Kind(w) = "absent" THEN "missing field"
    ELSE "invalid type"

Field(w, names, i) ==
    IF Kind(w) = "map"
    THEN (IF names[i] \in DOMAIN Val(w) THEN Val(w)[names[i]] ELSE WAbsent)
    ELSE Val(w)[i]

DeString(w) ==
    IF Kind(w) = "str" THEN Ok(Val(w))
    ELSE IF Kind(w) = "absent" THEN Err("missing field")
    ELSE Err("invalid type")

DeOption(w) ==
    IF Kind(w) \in {"null", "absent"} THEN Ok(None)
    ELSE IF Kind(w) = "str" THEN Ok(Some(Val(w)))
    ELSE Err("invalid type")

NodeFields == <<"id", "name">>

DeNode(w) ==
    LET e == StructError(w, Len(NodeFields)) IN
    IF e # "" THEN Err(e)
    ELSE LET id == DeString(Field(w, NodeFields, 1))
             name == DeOption(Field(w, NodeFields, 2))
         IN IF ~id.ok THEN id
            ELSE IF ~name.ok THEN name
            ELSE Ok([id |-> id.v, name |-> name.v])

FlowFields == <<"id", "name", "source_ref", "target_ref">>

DeFlow(w) ==
    LET e == StructError(w, Len(FlowFields)) IN
    IF e # "" THEN Err(e)
    ELSE LET id == DeString(Field(w, FlowFields, 1))
             name == DeOption(Field(w, FlowFields, 2))
             src == DeString(Field(w, FlowFields, 3))
             tgt == DeString(Field(w, FlowFields, 4))
         IN IF ~id.ok THEN id
            ELSE IF ~name.ok THEN name
            ELSE IF ~src.ok THEN src
            ELSE IF ~tgt.ok THEN tgt
            ELSE Ok(SequenceFlow(id.v, name.v, src.v, tgt.v))

DeVecNode(w) ==
    IF Kind(w) = "absent" THEN Err("missing field")
    ELSE IF Kind(w) # "seq" THEN Err("invalid type")
    ELSE IF \E i \in 1..Len(Val(w)) : ~DeNode(Val(w)[i]).ok
         THEN LET i == CHOOSE j \in 1..Len(Val(w)) :
                         /\ ~DeNode(Val(w)[j]).ok
                         /\ \A l \in 1..(j - 1) : DeNode(Val(w)[l]).ok
              IN DeNode(Val(w)[i])
         ELSE Ok([i \in 1..Len(Val(w)) |-> DeNode(Val(w)[i]).v])

DeVecFlow(w) ==
    IF Kind(w) = "absent" THEN Err("missing field")
    ELSE IF Kind(w) # "seq" THEN Err("invalid type")
    ELSE IF \E i \in 1..Len(Val(w)) : ~DeFlow(Val(w)[i]).ok
         THEN LET i == CHOOSE j \in 1..Len(Val(w)) :
                         /\ ~DeFlow(Val(w)[j]).ok
                         /\ \A l \in 1..(j - 1) : DeFlow(Val(w)[l]).ok
              IN DeFlow(Val(w)[i])
         ELSE Ok([i \in 1..Len(Val(w)) |-> DeFlow(Val(w)[i]).v])

NevFields == <<"head", "tail">>

\* Mutant: an empty sequence is read as a placeholder list.
DeNev_Placeholder(w) ==
    IF Kind(w) = "seq" /\ Len(Val(w)) = 0 THEN Ok(NevNew(SE(1)))
    ELSE LET e == StructError(w, Len(NevFields)) IN
         IF e # "" THEN Err(e)
         ELSE LET head == DeNode(Field(w, NevFields, 1))
                  tail == DeVecNode(Field(w, NevFields, 2))
              IN IF ~head.ok THEN head
                 ELSE IF ~tail.ok THEN tail
                 ELSE Ok([head |-> head.v, tail |-> tail.v])

DeNev(w) ==
    LET e == StructError(w, Len(NevFields)) IN
    IF e # "" THEN Err(e)
    ELSE LET head == DeNode(Field(w, NevFields, 1))
             tail == DeVecNode(Field(w, NevFields, 2))
         IN IF ~head.ok THEN head
            ELSE IF ~tail.ok THEN tail
            ELSE Ok([head |-> head.v, tail |-> tail.v])

ProcessFields ==
    <<"id", "name", "start_events", "tasks", "gateways", "end_events",
      "sequence_flows">>

DeProcess(w) ==
    LET e == StructError(w, Len(ProcessFields)) IN
    IF e # "" THEN Err(e)
    ELSE LET id == DeString(Field(w, ProcessFields, 1))
             name == DeOption(Field(w, ProcessFields, 2))
             se == DeNev(Field(w, ProcessFields, 3))
             tasks == DeVecNode(Field(w, ProcessFields, 4))
             gateways == DeVecNode(Field(w, ProcessFields, 5))
             ends == DeVecNode(Field(w, ProcessFields, 6))
             flows == DeVecFlow(Field(w, ProcessFields, 7))
         IN IF ~id.ok THEN id
            ELSE IF ~name.ok THEN name
            ELSE IF ~se.ok THEN se
            ELSE IF ~tasks.ok THEN tasks
            ELSE IF ~gateways.ok THEN gateways
            ELSE IF ~ends.ok THEN ends
            ELSE IF ~flows.ok THEN flows
            ELSE Ok(Process(id.v, name.v, se.v, tasks.v, gateways.v, ends.v,
                            flows.v))

----------------------------------------------------------------------------
(* Inputs of the operations.                                               *)

RECURSIVE NevsOfLen(_)
\* Every list of n start events the public API builds: new, then n-1 pushes.
NevsOfLen(n) ==
    IF n <= 1 THEN {NevNew(h) : h \in StartEvents}
    ELSE {NevPush(s, v) : s \in NevsOfLen(n - 1), v \in StartEvents}

AllNevs == UNION {NevsOfLen(n) : n \in 1..MaxLen}

Reverse(x) == [i \in 1..Len(x) |-> x[Len(x) + 1 - i]]

TaskPair == <<Task(1, None), Task(2, Some(2))>>
GatewayPair == <<Gateway(1, Some(1)), Gateway(2, None)>>
EndEventPair == <<EndEvent(1, None), EndEvent(2, None)>>
FlowPair == <<SequenceFlow(1, None, 1, 2), SequenceFlow(2, Some(2), 2, 1)>>

\* The tasks, gateways, end_events and sequence_flows a Process is built
\* with: all empty, two of each, or two of each with one collection reversed.
Collections ==
    { <<<<>>, <<>>, <<>>, <<>>>>,
      <<TaskPair, GatewayPair, EndEventPair, FlowPair>>,
      <<Reverse(TaskPair), GatewayPair, EndEventPair, FlowPair>>,
      <<TaskPair, Reverse(GatewayPair), EndEventPair, FlowPair>>,
      <<TaskPair, GatewayPair, Reverse(EndEventPair), FlowPair>>,
      <<TaskPair, GatewayPair, EndEventPair, Reverse(FlowPair)>> }

ProcessIds == {1}
ProcessNames == {None, Some(1)}

AllProcesses ==
    {Process(id, name, se, c[1], c[2], c[3], c[4]) :
        id \in ProcessIds, name \in ProcessNames, se \in AllNevs,
        c \in Collections}

Without(m, f) == [g \in (DOMAIN m) \ {f} |-> m[g]]
With(m, f, w) == [g \in (DOMAIN m) \cup {f} |-> IF g = f THEN w ELSE m[g]]

\* The struct written by position instead of by key.
AsSeq(w, names) == WSeq([i \in 1..Len(names) |-> Val(w)[names[i]]])

\* External representations offered to NonEmptyVec's Deserialize: what
\* Serialize writes, the same by position, with an unknown key, without the
\* tail, without the head's optional name, the elements as one plain
\* sequence, the empty sequence, and null.
NevWires ==
    UNION {{ SerNev(s),
             AsSeq(SerNev(s), NevFields),
             WMap(With(Val(SerNev(s)), "extra", WNull)),
             WMap(Without(Val(SerNev(s)), "tail")),
             WMap(With(Val(SerNev(s)), "head",
                       WMap(Without(Val(SerNode(s.head)), "name")))),
             SerVecNode(NevIter(s)) } : s \in AllNevs}
    \cup {WSeq(<<>>), WNull}

\* External representations offered to Process's Deserialize: what Serialize
\* writes, the same by position, without the optional name, with an unknown
\* key, and with start_events absent, empty, a plain sequence or positional.
ProcessWires ==
    UNION {LET m == Val(SerProcess(p))
               se == p.start_events
           IN { WMap(m),
                AsSeq(WMap(m), ProcessFields),
                WMap(Without(m, "name")),
                WMap(With(m, "extra", WNull)),
                WMap(Without(m, "start_events")),
                WMap(With(m, "start_events", WSeq(<<>>))),
                WMap(With(m, "start_events", SerVecNode(NevIter(se)))),
                WMap(With(m, "start_events", AsSeq(SerNev(se), NevFields))) }
           : p \in AllProcesses}

----------------------------------------------------------------------------
(* State.                                                                  *)
(*   phase  "none": nothing constructed; "nev": a free-standing list;      *)
(*          "proc": the list has been moved into a Process                 *)
(*   nev    the free-standing NonEmptyVec<StartEvent>                      *)
(*   proc   the Process                                                    *)
(*   hist   the seed and the pushed values, in call order (<<>> when the   *)
(*          list was decoded rather than constructed)                      *)
(*   iters  the results of the iter() calls just made one after another    *)
(*          (the last two at most)                                         *)
(*   ret    the last operation, its argument and its result                *)

Dead == [k |-> "dead"]

Ret(op, arg, val) == [op |-> op, arg |-> arg, val |-> val]

\* The list the NonEmptyVec methods act on.
Cur == IF phase = "nev" THEN nev ELSE proc.start_events

Live == phase \in {"nev", "proc"}

Init ==
    /\ phase = "none"
    /\ nev = Dead
    /\ proc = Dead
    /\ hist = <<>>
    /\ iters = <<>>
    /\ ret = Ret("init", 0, 0)

\* NonEmptyVec::new(head)
New(h) ==
    /\ phase = "none"
    /\ phase' = "nev"
    /\ nev' = NevNew(h)
    /\ hist' = <<h>>
    /\ iters' = <<>>
    /\ ret' = Ret("new", h, 0)
    /\ UNCHANGED proc

\* NonEmptyVec::from(head)
From(h) ==
    /\ phase = "none"
    /\ phase' = "nev"
    /\ nev' = NevFrom(h)
    /\ hist' = <<h>>
    /\ iters' = <<>>
    /\ ret' = Ret("from", h, 0)
    /\ UNCHANGED proc

\* list.push(value); the list before the call is kept in ret.val
Push(v) ==
    /\ Live
    /\ NevLen(Cur) < MaxLen
    /\ IF phase = "nev"
       THEN nev' = NevPush(nev, v) /\ UNCHANGED proc
       ELSE proc' = [proc EXCEPT !.start_events = NevPush(@, v)]
            /\ UNCHANGED nev
    /\ hist' = IF hist = <<>> THEN <<>> ELSE Append(hist, v)
    /\ iters' = <<>>
    /\ ret' = Ret("push", v, Cur)
    /\ UNCHANGED phase

\* list.first()
First ==
    /\ Live
    /\ ret' = Ret("first", 0, NevFirst(Cur))
    /\ iters' = <<>>
    /\ UNCHANGED <<phase, nev, proc, hist>>

\* list.len()
LenOp ==
    /\ Live
    /\ ret' = Ret("len", 0, NevLen(Cur))
    /\ iters' = <<>>
    /\ UNCHANGED <<phase, nev, proc, hist>>

\* list.iter().collect()
IterOp ==
    /\ Live
    /\ ret' = Ret("iter", 0, NevIter(Cur))
    /\ iters' = IF iters = <<>> THEN <<NevIter(Cur)>>
                ELSE <<iters[Len(iters)], NevIter(Cur)>>
    /\ UNCHANGED <<phase, nev, proc, hist>>

\* list.clone()
CloneNev ==
    /\ phase = "nev"
    /\ ret' = Ret("clone", 0, NevClone(nev))
    /\ iters' = <<>>
    /\ UNCHANGED <<phase, nev, proc, hist>>

\* list == other
CompareNev(other) ==
    /\ phase = "nev"
    /\ ret' = Ret("eq", other, NevEq(nev, other))
    /\ iters' = <<>>
    /\ UNCHANGED <<phase, nev, proc, hist>>

\* Serialize::serialize(&list)
SerializeNev ==
    /\ phase = "nev"
    /\ ret' = Ret("ser", 0, SerNev(nev))
    /\ iters' = <<>>
    /\ UNCHANGED <<phase, nev, proc, hist>>

\* Deserialize of what was just serialized; the list itself stays.
ReloadNev ==
    /\ phase = "nev"
    /\ ret.op = "ser"
    /\ ret' = Ret("reload", ret.val, DeNev(ret.val))
    /\ iters' = <<>>
    /\ UNCHANGED <<phase, nev, proc, hist>>

\* NonEmptyVec::<StartEvent>::deserialize(r)
DeserializeNev(r) ==
    /\ phase = "none"
    /\ ret.op \in {"init", "drop"}
    /\ LET d == DeNev(r) IN
        /\ ret' = Ret("de", r, d)
        /\ IF d.ok
           THEN phase' = "nev" /\ nev' = d.v
           ELSE UNCHANGED <<phase, nev>>
    /\ hist' = <<>>
    /\ iters' = <<>>
    /\ UNCHANGED proc

\* Process { id, name, start_events: list, tasks, ... }: the list is moved.
NewProcess(id, name, c) ==
    /\ phase = "nev"
    /\ phase' = "proc"
    /\ proc' = Process(id, name, nev, c[1], c[2], c[3], c[4])
    /\ nev' = Dead
    /\ ret' = Ret("process", 0, 0)
    /\ iters' = <<>>
    /\ UNCHANGED hist

\* process.clone()
CloneProcess ==
    /\ phase = "proc"
    /\ ret' = Ret("clone_process", 0, ProcessClone(proc))
    /\ iters' = <<>>
    /\ UNCHANGED <<phase, nev, proc, hist>>

\* process == other
CompareProcess(other) ==
    /\ phase = "proc"
    /\ ret' = Ret("eq_process", other, ProcessEq(proc, other))
    /\ iters' = <<>>
    /\ UNCHANGED <<phase, nev, proc, hist>>

\* Serialize::serialize(&process)
SerializeProcess ==
    /\ phase = "proc"
    /\ ret' = Ret("ser_process", 0, SerProcess(proc))
    /\ iters' = <<>>
    /\ UNCHANGED <<phase, nev, proc, hist>>

\* Deserialize of what was just serialized; the process itself stays.
ReloadProcess ==
    /\ phase = "proc"
    /\ ret.op = "ser_process"
    /\ ret' = Ret("reload_process", ret.val, DeProcess(ret.val))
    /\ iters' = <<>>
    /\ UNCHANGED <<phase, nev, proc, hist>>

\* Process::deserialize(r)
DeserializeProcess(r) ==
    /\ phase = "none"
    /\ ret.op \in {"init", "drop"}
    /\ LET d == DeProcess(r) IN
        /\ ret' = Ret("de_process", r, d)
        /\ IF d.ok
           THEN phase' = "proc" /\ proc' = d.v
           ELSE UNCHANGED <<phase, proc>>
    /\ hist' = <<>>
    /\ iters' = <<>>
    /\ UNCHANGED nev

\* The owner goes out of scope.
Drop ==
    /\ Live
    /\ phase' = "none"
    /\ nev' = Dead
    /\ proc' = Dead
    /\ hist' = <<>>
    /\ iters' = <<>>
    /\ ret' = Ret("drop", 0, 0)

\* The lists a list is compared with, each built by new and pushes: of the
\* same length and different in at most one place or holding the elements
\* in reverse order, or one element shorter or longer.
NevOthers ==
    IF phase # "nev" THEN {}
    ELSE LET a == NevIter(nev) IN
         {o \in AllNevs :
            LET b == NevIter(o) IN
            \/ /\ Len(a) = Len(b)
               /\ Cardinality({i \in 1..Len(a) : a[i] # b[i]}) <= 1
            \/ b = Reverse(a)
            \/ /\ Len(b) = Len(a) + 1
               /\ \A i \in 1..Len(a) : a[i] = b[i]
            \/ /\ Len(a) = Len(b) + 1
               /\ \A i \in 1..Len(b) : a[i] = b[i]}

\* The processes a Process is compared with, each built field by field: from
\* the same arguments, with the tail of start_events in reverse order, with
\* another name, or with other collections.
Others ==
    IF phase # "proc" THEN {}
    ELSE LET se == proc.start_events IN
         { Process(proc.id, name, s, c[1], c[2], c[3], c[4]) :
              name \in {proc.name},
              s \in {se, [head |-> se.head, tail |-> Reverse(se.tail)]},
              c \in {<<proc.tasks, proc.gateways, proc.end_events,
                       proc.sequence_flows>>} }
         \cup {Process(proc.id, name, se, proc.tasks, proc.gateways,
                       proc.end_events, proc.sequence_flows) :
                  name \in ProcessNames}
         \cup {Process(proc.id, proc.name, se, c[1], c[2], c[3], c[4]) :
                  c \in Collections}

Next ==
    \/ \E h \in StartEvents : New(h)
    \/ \E h \in StartEvents : From(h)
    \/ \E v \in StartEvents : Push(v)
    \/ First
    \/ LenOp
    \/ IterOp
    \/ CloneNev
    \/ \E other \in NevOthers : CompareNev(other)
    \/ SerializeNev
    \/ ReloadNev
    \/ \E r \in NevWires : DeserializeNev(r)
    \/ \E id \in ProcessIds, name \in ProcessNames, c \in Collections :
          NewProcess(id, name, c)
    \/ CloneProcess
    \/ \E other \in Others : CompareProcess(other)
    \/ SerializeProcess
    \/ ReloadProcess
    \/ \E r \in ProcessWires : DeserializeProcess(r)
    \/ Drop

Spec == Init /\ [][Next]_vars

----------------------------------------------------------------------------
(* Properties.                                                             *)

\* C1: a list that exists holds at least one element: after every
\* construction, push and read its length is 1 + |tail| >= 1, it equals the
\* number of values supplied so far, and len() never returns less than 1.
C1_NonEmpty ==
    Live =>
        /\ NevLen(Cur) >= 1
        /\ NevLen(Cur) = 1 + Len(Cur.tail)
        /\ (hist # <<>> => NevLen(Cur) = Len(hist))
        /\ (ret.op = "len" => ret.val >= 1 /\ ret.val = NevLen(Cur))

C1_Witness ==
    /\ Live
    /\ ret.op = "len"
    /\ Len(hist) = MaxLen
    /\ ret.val = MaxLen

\* C2: after new(h), push(t1), ..., push(tn), iter() yields <<h, t1, ..., tn>>,
\* and two iterations in a row yield the same sequence.
C2_IterOrder ==
    Live =>
        /\ (ret.op = "iter" => ret.val = iters[Len(iters)])
        /\ (hist # <<>> => \A i \in 1..Len(iters) : iters[i] = hist)
        /\ (Len(iters) = 2 => iters[1] = iters[2])

C2_Witness ==
    /\ Live
    /\ Len(iters) = 2
    /\ Len(hist) >= 3
    /\ hist[1] # hist[2]
    /\ iters[2] = hist

\* C7: first() is the seed given to new/from, and is the first element that
\* iter() yields, whatever was pushed since.
C7_FirstAgreement ==
    (Live /\ ret.op = "first") =>
        /\ ret.val = NevIter(Cur)[1]
        /\ (hist # <<>> => ret.val = hist[1])

C7_Witness ==
    /\ Live
    /\ ret.op = "first"
    /\ Len(hist) >= 2
    /\ hist[1] # hist[Len(hist)]
    /\ ret.val = hist[1]

\* C10: new(seed) yields a list of length 1 whose first element and whose
\* whole iteration is the seed, and from(seed) equals new(seed).
C10_Construction ==
    (ret.op \in {"new", "from"}) =>
        /\ phase = "nev"
        /\ NevLen(nev) = 1
        /\ Len(nev.tail) = 0
        /\ NevFirst(nev) = ret.arg
        /\ NevIter(nev) = <<ret.arg>>
        /\ NevEq(nev, NevNew(ret.arg))
        /\ NevEq(NevFrom(ret.arg), NevNew(ret.arg))

C10_Witness ==
    /\ ret.op = "from"
    /\ phase = "nev"
    /\ NevLen(nev) = 1
    /\ nev.head = SE(2)

\* After push(v): one element more, v last, everything else where it was.
PushEffect ==
    (Live /\ ret.op = "push") =>
        LET old == ret.val
            n == NevLen(old)
        IN /\ NevLen(Cur) = n + 1
           /\ Len(NevIter(Cur)) = n + 1
           /\ NevIter(Cur)[n + 1] = ret.arg
           /\ NevFirst(Cur) = NevFirst(old)
           /\ \A i \in 1..n : NevIter(Cur)[i] = NevIter(old)[i]

LenNeverDecreases == (Live /\ Live') => NevLen(Cur') >= NevLen(Cur)

\* C9: push(v) makes the list one longer, v is the last element iter()
\* yields, the head and every element already present keep their places;
\* and no step makes a list that stays alive shorter.
C9_AppendFrame == [](PushEffect) /\ [][LenNeverDecreases]_vars

C9_Witness ==
    /\ Live
    /\ ret.op = "push"
    /\ NevLen(Cur) = MaxLen
    /\ ret.arg # NevFirst(Cur)
    /\ NevIter(Cur)[MaxLen] = ret.arg

\* C8: two lists are equal exactly when they have the same head and the same
\* tail in the same order; two processes are equal exactly when all seven
\* fields are, so that one built from the same arguments is equal and one
\* whose start_events tail or whose tasks, gateways, end_events or
\* sequence_flows are in another order is not.
C8_StructuralEquality ==
    /\ (phase = "nev" /\ ret.op = "eq") =>
          (ret.val <=> (nev.head = ret.arg.head /\ nev.tail = ret.arg.tail))
    /\ (phase = "proc" /\ ret.op = "eq_process") =>
          (ret.val <=>
              /\ proc.id = ret.arg.id
              /\ proc.name = ret.arg.name
              /\ proc.start_events.head = ret.arg.start_events.head
              /\ proc.start_events.tail = ret.arg.start_events.tail
              /\ proc.tasks = ret.arg.tasks
              /\ proc.gateways = ret.arg.gateways
              /\ proc.end_events = ret.arg.end_events
              /\ proc.sequence_flows = ret.arg.sequence_flows)

\* A process compared with one that differs only in the order of the tail
\* of start_events, and found unequal.
C8_Witness ==
    /\ phase = "proc"
    /\ ret.op = "eq_process"
    /\ ~ret.val
    /\ ret.arg.start_events.tail = Reverse(proc.start_events.tail)
    /\ ret.arg.start_events.tail # proc.start_events.tail
    /\ ret.arg.tasks = proc.tasks
    /\ ret.arg.name = proc.name

\* C6: every Process that exists, whether built field by field, pushed to,
\* cloned or decoded, has at least one start event.
C6_ProcessHasStartEvent ==
    /\ phase = "proc" =>
          /\ NevLen(proc.start_events) >= 1
          /\ Len(NevIter(proc.start_events)) >= 1
          /\ NevIter(proc.start_events)[1] = NevFirst(proc.start_events)
    /\ ret.op = "clone_process" => NevLen(ret.val.start_events) >= 1
    /\ (ret.op \in {"de_process", "reload_process"} /\ ret.val.ok) =>
          NevLen(ret.val.v.start_events) >= 1

C6_Witness ==
    /\ phase = "proc"
    /\ ret.op = "de_process"
    /\ ret.val.ok
    /\ NevLen(proc.start_events) = 1

\* An external representation that is the empty sequence.
IsEmptySeq(w) == Kind(w) = "seq" /\ Len(Val(w)) = 0

\* A Process map whose start_events is the empty sequence.
HasEmptyStartEvents(w) ==
    /\ Kind(w) = "map"
    /\ "start_events" \in DOMAIN Val(w)
    /\ IsEmptySeq(Val(w)["start_events"])

\* C3: decoding the empty sequence as a NonEmptyVec, or a Process whose
\* start_events is the empty sequence, fails, and no value comes to exist.
C3_DecodeRejectsEmpty ==
    /\ (ret.op = "de" /\ IsEmptySeq(ret.arg)) =>
          ~ret.val.ok /\ phase = "none"
    /\ (ret.op = "de_process" /\ HasEmptyStartEvents(ret.arg)) =>
          ~ret.val.ok /\ phase = "none"

C3_Witness ==
    /\ ret.op = "de_process"
    /\ HasEmptyStartEvents(ret.arg)
    /\ ~ret.val.ok
    /\ ret.val.v = "invalid length"

\* A plain sequence of one or more encoded elements.
IsPlainSeq(w) ==
    /\ Kind(w) = "seq"
    /\ Len(Val(w)) >= 1
    /\ \A i \in 1..Len(Val(w)) : Kind(Val(w)[i]) = "map"

\* C4: a NonEmptyVec is encoded as the plain sequence of its elements, of
\* length len(), in iter() order, and every plain sequence of one or more
\* elements decodes to the list with those elements in that order.
C4_PlainSequence ==
    /\ (phase = "nev" /\ ret.op = "ser") =>
          /\ Kind(ret.val) = "seq"
          /\ Len(Val(ret.val)) = NevLen(nev)
          /\ \A i \in 1..NevLen(nev) : Val(ret.val)[i] = SerNode(NevIter(nev)[i])
    /\ (ret.op = "de" /\ IsPlainSeq(ret.arg)) =>
          /\ ret.val.ok
          /\ Len(NevIter(ret.val.v)) = Len(Val(ret.arg))
          /\ \A i \in 1..Len(Val(ret.arg)) :
                SerNode(NevIter(ret.val.v)[i]) = Val(ret.arg)[i]

\* A map holding exactly the keys `names`.
HasExactly(w, names) ==
    Kind(w) = "map" /\ DOMAIN Val(w) = {names[i] : i \in 1..Len(names)}

\* The form Serialize writes: every struct a map holding exactly its fields,
\* every Vec a sequence.
IsNodeForm(w) == HasExactly(w, NodeFields)

IsFlowForm(w) == HasExactly(w, FlowFields)

IsVecNodeForm(w) ==
    Kind(w) = "seq" /\ \A i \in 1..Len(Val(w)) : IsNodeForm(Val(w)[i])

IsVecFlowForm(w) ==
    Kind(w) = "seq" /\ \A i \in 1..Len(Val(w)) : IsFlowForm(Val(w)[i])

IsNevForm(w) ==
    /\ HasExactly(w, NevFields)
    /\ IsNodeForm(Val(w)["head"])
    /\ IsVecNodeForm(Val(w)["tail"])

IsProcessForm(w) ==
    /\ HasExactly(w, ProcessFields)
    /\ IsNevForm(Val(w)["start_events"])
    /\ IsVecNodeForm(Val(w)["tasks"])
    /\ IsVecNodeForm(Val(w)["gateways"])
    /\ IsVecNodeForm(Val(w)["end_events"])
    /\ IsVecFlowForm(Val(w)["sequence_flows"])

\* decode(encode(x)) = x for the list and the process that were reloaded.
DecodeEncode ==
    /\ (phase = "nev" /\ ret.op = "reload") =>
          /\ ret.val.ok
          /\ ret.val.v = nev
          /\ NevIter(ret.val.v) = NevIter(nev)
    /\ (phase = "proc" /\ ret.op = "reload_process") =>
          /\ ret.val.ok
          /\ ret.val.v = proc
          /\ NevIter(ret.val.v.start_events) = NevIter(proc.start_events)

\* C5 as stated: decode(encode(x)) = x, and encode(decode(r)) = r for every
\* representation r that decodes.
C5_RoundTripAnyInput ==
    /\ DecodeEncode
    /\ (ret.op = "de" /\ ret.val.ok) => SerNev(ret.val.v) = ret.arg
    /\ (ret.op = "de_process" /\ ret.val.ok) => SerProcess(ret.val.v) = ret.arg

\* C5 as amended: decode(encode(x)) = x; for every representation r that
\* decodes, encode(decode(r)) decodes to the same value again, and it is r
\* itself when r has the form Serialize writes (maps with exactly the
\* struct's keys).
C5_RoundTrip ==
    /\ DecodeEncode
    /\ (ret.op = "de" /\ ret.val.ok) =>
          LET e == SerNev(ret.val.v) IN
          /\ DeNev(e).ok
          /\ DeNev(e).v = ret.val.v
          /\ (IsNevForm(ret.arg) => e = ret.arg)
    /\ (ret.op = "de_process" /\ ret.val.ok) =>
          LET e == SerProcess(ret.val.v) IN
          /\ DeProcess(e).ok
          /\ DeProcess(e).v = ret.val.v
          /\ (IsProcessForm(ret.arg) => e = ret.arg)

C5_Witness ==
    /\ phase = "proc"
    /\ ret.op = "reload_process"
    /\ ret.val.ok
    /\ NevLen(proc.start_events) = MaxLen
    /\ proc.start_events.tail[1] # proc.start_events.tail[2]
    /\ Len(proc.tasks) = 2
    /\ ret.val.v = proc

====
